---- MODULE Spec2Model ----
(***************************************************************************)
(* Fleet tracker (server.py): journey segmentation from two position       *)
(* feeds, the stale-journey janitor and the split-journey corrector.       *)
(*                                                                         *)
(* Threads of the program: the tracking loop (polls the trackapp buses and *)
(* then runs the in-loop janitor), one websocket listener per push-feed    *)
(* bus, and the Flask request threads (POST /end-stale-journeys, GET/POST  *)
(* /fix-split-journeys).  Every database statement is one atomic step;     *)
(* the steps of different threads interleave freely.                       *)
(*                                                                         *)
(* Abstractions: a position (lat, lon) is an integer offset in metres      *)
(* along a line, so haversine is the absolute difference and the distance  *)
(* thresholds are in metres; a date string is the IST day number.          *)
(***************************************************************************)
EXTENDS Integers, Sequences, FiniteSets, TLC

VARIABLES
    now,               \* int(time.time())
    buses,             \* load_buses(): [poll |-> bus_no, ws |-> serviceNo]
    journeys,          \* table journeys: a set of rows
    trip_points,       \* table trip_points: rows in id order
    fleet_state,       \* fleet_state[bus_no]: the session dict, or NoState
    last_stale_check,  \* _last_stale_check
    pollPc, poll,      \* tracking_loop: position and locals
    staleRows,         \* auto_end_stale_journeys: [now, rows]
    wsPc, ws,          \* websocket_listener.on_message: position and locals
    apiPc, apiRows,    \* end_stale_journeys (POST): position and [now, rows]
    fixPc, fixPairs,   \* fix_split_journeys: position and candidates
    route,             \* match_points_valhalla: position and locals
    cycle,             \* tracking_loop over the fleet list: position and locals
    listener,          \* websocket_listener: the thread and its connection
    service_vehicle_map  \* service_vehicle_map[serviceNo]: the vehicle, or NoVehicle

vars == <<now, buses, journeys, trip_points, fleet_state, last_stale_check,
          pollPc, poll, staleRows, wsPc, ws, apiPc, apiRows, fixPc, fixPairs,
          route, cycle, listener, service_vehicle_map>>

(* the variables of the ingestion and maintenance paths, and the others *)
core == <<now, buses, journeys, trip_points, fleet_state, last_stale_check,
          pollPc, poll, staleRows, wsPc, ws, apiPc, apiRows, fixPc, fixPairs>>

aux == <<route, cycle, listener, service_vehicle_map>>

----------------------------------------------------------------------------
(* Program constants *)

CHECK_INTERVAL == 10
END_CONFIRM_THRESHOLD == 3600
MOVEMENT_THRESHOLD == 5
RESUME_DISTANCE == 300
IDLE_ANCHOR_RADIUS == 300
WS_STILL_RADIUS == 50
WS_SLOW_RADIUS == 150
STALE_CHECK_INTERVAL == 600
STALE_WINDOW == 3600
SHORT_GAP == 900
MIDNIGHT_CUT_HOURS == 6
HOUR == 60 * 60
DAY == 24 * HOUR
IST_OFFSET == 5 * HOUR + 30 * 60

(* Bounds of the model *)

MaxPoints == 2      \* samples are delivered while trip_points is shorter
MaxSmallTicks == 1  \* ten-second clock steps after the last long one
MaxLongTicks == 2   \* half-hour clock steps

StartTime == 17 * HOUR + 30 * 60   \* 23:00:00 IST of day 0
LongTick == 30 * 60
Positions == {0, 100, 400}         \* metres along the road
Speeds == {3, 8}                   \* km/h, below and above the threshold
Keys == {"B1", "S1"}

NULL == 0 - 1       \* None / SQL NULL in an integer column
Absent == 0 - 2     \* a key the session dict does not hold
NoId == <<>>        \* None for a journey_id
NoBus == "-"        \* the fleet has no bus of that feed

----------------------------------------------------------------------------
(* Utilities *)

Max(S) == CHOOSE x \in S : \A y \in S : y <= x

haversine(a, b) == IF a >= b THEN a - b ELSE b - a

ts_to_ist(ts) == ts + IST_OFFSET

DepartureDate(ts) == ts_to_ist(ts) \div DAY

IstHour(ts) == (ts_to_ist(ts) % DAY) \div HOUR

generate_journey_id(bus_no, t) == <<bus_no, t>>

(* A lookup that also asks for today's departure_date: the date-change    *)
(* logic the tracking loop no longer has.                                  *)
get_active_journey_today(J, bus_no) ==
    LET act == {j \in J : /\ j.bus_no = bus_no
                          /\ j.status = "active"
                          /\ j.departure_date = DepartureDate(now)}
    IN  IF act = {} THEN {NoId}
        ELSE {j.journey_id : j \in
               {x \in act : \A y \in act : y.start_timestamp <= x.start_timestamp}}

(* get_active_journey: the active rows of the bus with the greatest        *)
(* start_timestamp (ORDER BY ... DESC LIMIT 1 picks any of them), or None. *)
get_active_journey(J, bus_no) ==
    LET act == {j \in J : j.bus_no = bus_no /\ j.status = "active"}
    IN  IF act = {} THEN {NoId}
        ELSE {j.journey_id : j \in
               {x \in act : \A y \in act : y.start_timestamp <= x.start_timestamp}}

JourneyIds(J) == {j.journey_id : j \in J}

NewJourneyRow(bus_no, timestamp, t) ==
    [journey_id |-> generate_journey_id(bus_no, t), bus_no |-> bus_no,
     departure_date |-> DepartureDate(timestamp),
     start_timestamp |-> timestamp, end_timestamp |-> NULL,
     status |-> "active"]

(* create_new_journey: the INSERT; a duplicate primary key raises and      *)
(* leaves the table unchanged.                                             *)
CreateRaises(J, bus_no, t) == generate_journey_id(bus_no, t) \in JourneyIds(J)

create_new_journey(J, bus_no, timestamp, t) ==
    IF CreateRaises(J, bus_no, t) THEN J
    ELSE J \cup {NewJourneyRow(bus_no, timestamp, t)}

end_journey(J, journey_id, timestamp) ==
    {IF j.journey_id = journey_id
       THEN [j EXCEPT !.status = "ended", !.end_timestamp = timestamp]
       ELSE j : j \in J}

PointRow(journey_id, timestamp, pos, speed) ==
    [journey_id |-> journey_id, timestamp |-> timestamp,
     pos |-> pos, speed |-> speed]

InsertPoint(P, journey_id, timestamp, pos, speed) ==
    Append(P, PointRow(journey_id, timestamp, pos, speed))

PointsOf(P, journey_id) == {i \in DOMAIN P : P[i].journey_id = journey_id}

(* MAX(tp.timestamp) over the LEFT JOIN: NULL for a journey with no point *)
LastPing(P, journey_id) ==
    IF PointsOf(P, journey_id) = {} THEN NULL
    ELSE Max({P[i].timestamp : i \in PointsOf(P, journey_id)})

----------------------------------------------------------------------------
(* Session state *)

NoState ==
    [idle_start_time |-> Absent, idle_start_location |-> Absent,
     idle_location |-> Absent, last_location |-> Absent,
     last_signal_time |-> Absent]

PollInitState ==
    [idle_start_time |-> NULL, idle_start_location |-> NULL,
     idle_location |-> Absent, last_location |-> NULL,
     last_signal_time |-> Absent]

(* A session dict whose last signal dates from the epoch *)
WsInitStateEpoch(timestamp) ==
    [idle_start_time |-> NULL, idle_start_location |-> Absent,
     idle_location |-> NULL, last_location |-> NULL,
     last_signal_time |-> 0]

WsInitState(timestamp) ==
    [idle_start_time |-> NULL, idle_start_location |-> Absent,
     idle_location |-> NULL, last_location |-> NULL,
     last_signal_time |-> timestamp]

InFleetState(F, bus_no) == F[bus_no] # NoState

(* state.get(key): None when the key is missing *)
Get(v) == IF v = Absent THEN NULL ELSE v

NoSample ==
    [pos |-> 0, speed |-> 0, timestamp |-> 0, active_journey |-> NoId,
     idle_ended |-> FALSE, created |-> FALSE]

NoRows == [now |-> 0, rows |-> {}]

(* line 374: time.sleep(10); the next cycle starts no earlier than wake *)
Sleeping(t) == [NoSample EXCEPT !.timestamp = t + CHECK_INTERVAL]

----------------------------------------------------------------------------
(* The clock *)

Elapsed == now - StartTime

(* The clock values of the model, and those a reading of time.time() may   *)
(* return after the reading that returned now: time passes in ten-second   *)
(* and half-hour steps.                                                    *)
ClockValues ==
    {StartTime + l * LongTick + k * CHECK_INTERVAL :
        l \in 0..MaxLongTicks, k \in 0..MaxSmallTicks}

Later ==
    {t \in ClockValues : /\ t >= now
                         /\ (t - StartTime) % LongTick >= Elapsed % LongTick}

----------------------------------------------------------------------------
(* tracking_loop: one trackapp bus per cycle, then the in-loop janitor *)

(* lines 258-286: the response is Ok; the sample is read, the session dict *)
(* is created on first sight and the active journey is fetched.  Samples   *)
(* are delivered while the table holds fewer than limit rows.              *)
PollReadUpTo(limit, t, pos, speed) ==
    /\ pollPc = "poll"
    /\ t \in Later
    /\ now' = t
    /\ t >= poll.timestamp
    /\ buses.poll # NoBus
    /\ Len(trip_points) < limit
    /\ \E a \in get_active_journey(journeys, buses.poll) :
          poll' = [pos |-> pos, speed |-> speed, timestamp |-> t,
                   active_journey |-> a, idle_ended |-> FALSE,
                   created |-> FALSE]
    /\ fleet_state' = IF InFleetState(fleet_state, buses.poll) THEN fleet_state
                      ELSE [fleet_state EXCEPT ![buses.poll] = PollInitState]
    /\ pollPc' = "idle"
    /\ UNCHANGED <<buses, journeys, trip_points, last_stale_check,
                   staleRows, wsPc, ws, apiPc, apiRows, fixPc, fixPairs>>
    /\ UNCHANGED aux

PollRead(t, pos, speed) == PollReadUpTo(MaxPoints, t, pos, speed)

(* lines 244-245, 267-268: the bus is skipped for this cycle *)
PollSkip(t) ==
    /\ pollPc = "poll"
    /\ t \in Later
    /\ now' = t
    /\ t >= poll.timestamp
    /\ pollPc' = "stale"
    /\ poll' = NoSample
    /\ UNCHANGED <<buses, journeys, trip_points, fleet_state,
                   last_stale_check, staleRows, wsPc, ws, apiPc,
                   apiRows, fixPc, fixPairs>>
    /\ UNCHANGED aux

(* lines 301-306 *)
movement_from_last(state, pos) ==
    IF Get(state.last_location) # NULL
      THEN haversine(state.last_location, pos) ELSE 0

(* lines 309-316: measured from the idle anchor when there is one *)
movement_from_anchor(state, pos) ==
    IF state.idle_start_location # NULL
      THEN haversine(state.idle_start_location, pos)
      ELSE movement_from_last(state, pos)

(* line 332 *)
IdleEnds(active_journey, idle_duration) ==
    active_journey # NoId /\ idle_duration >= END_CONFIRM_THRESHOLD

(* An anchor stamped anew by every sample that counts as stopped *)
StampAnchorAlways(state, timestamp, pos) ==
    [state EXCEPT !.idle_start_time = timestamp,
                  !.idle_start_location = pos]

(* lines 325-328: the anchor is stamped only when none is set *)
StampAnchor(state, timestamp, pos) ==
    IF state.idle_start_time = NULL
      THEN [state EXCEPT !.idle_start_time = timestamp,
                         !.idle_start_location = pos]
      ELSE state

(* lines 336-337 and 341-342 *)
ClearAnchor(state) ==
    [state EXCEPT !.idle_start_time = NULL, !.idle_start_location = NULL]

(* lines 301-342: idle detection.  state["idle_start_location"] raises     *)
(* KeyError on a dict the websocket listener created; the exception ends   *)
(* the cycle (line 370).                                                   *)
PollIdle ==
    /\ pollPc = "idle"
    /\ LET bus     == buses.poll
           state   == fleet_state[bus]
           stamped == StampAnchor(state, poll.timestamp, poll.pos)
       IN  IF state.idle_start_location = Absent
           THEN /\ pollPc' = "stale"
                /\ poll' = NoSample
                /\ UNCHANGED <<journeys, fleet_state>>
           ELSE IF movement_from_anchor(state, poll.pos) <= IDLE_ANCHOR_RADIUS
           THEN IF IdleEnds(poll.active_journey,
                            poll.timestamp - stamped.idle_start_time)
                THEN /\ journeys' = end_journey(journeys, poll.active_journey,
                                                poll.timestamp)
                     /\ fleet_state' = [fleet_state EXCEPT
                                          ![bus] = ClearAnchor(stamped)]
                     /\ poll' = [poll EXCEPT !.active_journey = NoId,
                                             !.idle_ended = TRUE]
                     /\ pollPc' = "create"
                ELSE /\ fleet_state' = [fleet_state EXCEPT ![bus] = stamped]
                     /\ pollPc' = IF poll.active_journey = NoId
                                    THEN "create" ELSE "insert"
                     /\ UNCHANGED <<journeys, poll>>
           ELSE /\ fleet_state' = [fleet_state EXCEPT
                                     ![bus] = ClearAnchor(state)]
                /\ pollPc' = IF poll.active_journey = NoId
                               THEN "create" ELSE "insert"
                /\ UNCHANGED <<journeys, poll>>
    /\ UNCHANGED <<now, buses, trip_points, last_stale_check, staleRows,
                   wsPc, ws, apiPc, apiRows, fixPc, fixPairs>>
    /\ UNCHANGED aux

(* line 348 *)
IsMoving(speed) == speed > MOVEMENT_THRESHOLD

(* lines 346-353: no active journey; one is created only for a moving bus, *)
(* otherwise the sample is skipped.  A duplicate journey_id raises and     *)
(* ends the cycle.                                                         *)
PollCreate(t) ==
    /\ pollPc = "create"
    /\ t \in Later
    /\ now' = t
    /\ IF IsMoving(poll.speed) /\ ~CreateRaises(journeys, buses.poll, t)
       THEN /\ journeys' = create_new_journey(journeys, buses.poll,
                                              poll.timestamp, t)
            /\ poll' = [poll EXCEPT
                          !.active_journey = generate_journey_id(buses.poll, t),
                          !.created = TRUE]
            /\ pollPc' = "insert"
       ELSE /\ pollPc' = "stale"
            /\ poll' = NoSample
            /\ UNCHANGED journeys
    /\ UNCHANGED <<buses, trip_points, fleet_state, last_stale_check,
                   staleRows, wsPc, ws, apiPc, apiRows, fixPc, fixPairs>>
    /\ UNCHANGED aux

(* lines 355-366 *)
PollInsert ==
    /\ pollPc = "insert"
    /\ fleet_state' = [fleet_state EXCEPT ![buses.poll].last_location = poll.pos]
    /\ trip_points' = InsertPoint(trip_points, poll.active_journey,
                                  poll.timestamp, poll.pos, poll.speed)
    /\ pollPc' = "stale"
    /\ poll' = NoSample
    /\ UNCHANGED <<now, buses, journeys, last_stale_check, staleRows,
                   wsPc, ws, apiPc, apiRows, fixPc, fixPairs>>
    /\ UNCHANGED aux

----------------------------------------------------------------------------
(* The janitor *)

(* A SELECT without WHERE j.status = 'active' *)
StaleRowsAnyStatus(J, P, cutoff) ==
    {[journey_id |-> j.journey_id, bus_no |-> j.bus_no,
      start_timestamp |-> j.start_timestamp,
      last_ping |-> LastPing(P, j.journey_id)] :
        j \in {x \in J : \/ LastPing(P, x.journey_id) = NULL
                          \/ LastPing(P, x.journey_id) < cutoff}}

(* The SELECT without OR MAX(tp.timestamp) < cutoff in its HAVING *)
StaleRowsNoPing(J, P, cutoff) ==
    {[journey_id |-> j.journey_id, bus_no |-> j.bus_no,
      start_timestamp |-> j.start_timestamp,
      last_ping |-> LastPing(P, j.journey_id)] :
        j \in {x \in J : /\ x.status = "active"
                         /\ LastPing(P, x.journey_id) = NULL}}

(* lines 166-176 and 1090-1103: active journeys whose latest point is      *)
(* older than the cutoff, or that have no point.                           *)
StaleRows(J, P, cutoff) ==
    {[journey_id |-> j.journey_id, bus_no |-> j.bus_no,
      start_timestamp |-> j.start_timestamp,
      last_ping |-> LastPing(P, j.journey_id)] :
        j \in {x \in J : /\ x.status = "active"
                         /\ \/ LastPing(P, x.journey_id) = NULL
                            \/ LastPing(P, x.journey_id) < cutoff}}

(* line 185 *)
AutoEndTs(row, t) == IF row.last_ping # NULL THEN row.last_ping ELSE t

(* line 1112 *)
ApiEndTs(row) == IF row.last_ping # NULL THEN row.last_ping
                 ELSE row.start_timestamp

(* lines 189-191 *)
ClearIdle(F, bus_no) ==
    IF InFleetState(F, bus_no)
      THEN [F EXCEPT ![bus_no].idle_start_time = NULL,
                     ![bus_no].idle_start_location = NULL]
      ELSE F

(* lines 154-181: the throttle and the SELECT *)
AutoSelect(t) ==
    /\ pollPc = "stale"
    /\ t \in Later
    /\ now' = t
    /\ IF t - last_stale_check < STALE_CHECK_INTERVAL
       THEN /\ pollPc' = "poll"
            /\ poll' = Sleeping(t)
            /\ UNCHANGED <<last_stale_check, staleRows>>
       ELSE /\ last_stale_check' = t
            /\ LET rows == StaleRows(journeys, trip_points, t - STALE_WINDOW)
               IN  IF rows = {}
                   THEN /\ pollPc' = "poll"
                        /\ poll' = Sleeping(t)
                        /\ UNCHANGED staleRows
                   ELSE /\ pollPc' = "stale-end"
                        /\ staleRows' = [now |-> t, rows |-> rows]
                        /\ UNCHANGED poll
    /\ UNCHANGED <<buses, journeys, trip_points, fleet_state,
                   wsPc, ws, apiPc, apiRows, fixPc, fixPairs>>
    /\ UNCHANGED aux

(* lines 184-192: one iteration of the loop over the stale rows *)
AutoEnd ==
    /\ pollPc = "stale-end"
    /\ \E row \in staleRows.rows :
          /\ journeys' = end_journey(journeys, row.journey_id,
                                     AutoEndTs(row, staleRows.now))
          /\ fleet_state' = ClearIdle(fleet_state, row.bus_no)
          /\ IF staleRows.rows = {row}
             THEN /\ pollPc' = "poll"
                  /\ poll' = Sleeping(now)
                  /\ staleRows' = NoRows
             ELSE /\ pollPc' = pollPc
                  /\ staleRows' = [staleRows EXCEPT !.rows = @ \ {row}]
                  /\ UNCHANGED poll
    /\ UNCHANGED <<now, buses, trip_points, last_stale_check,
                   wsPc, ws, apiPc, apiRows, fixPc, fixPairs>>
    /\ UNCHANGED aux

(* lines 1083-1105: POST /end-stale-journeys, the SELECT *)
ApiSelect(t) ==
    /\ apiPc = "idle"
    /\ t \in Later
    /\ now' = t
    /\ LET rows == StaleRows(journeys, trip_points, t - STALE_WINDOW)
       IN  IF rows = {}
           THEN UNCHANGED <<apiPc, apiRows>>
           ELSE /\ apiPc' = "ending"
                /\ apiRows' = [now |-> t, rows |-> rows]
    /\ UNCHANGED <<buses, journeys, trip_points, fleet_state,
                   last_stale_check, pollPc, poll, staleRows, wsPc, ws,
                   fixPc, fixPairs>>
    /\ UNCHANGED aux

(* ORDER BY j.bus_no, j.start_timestamp: the row the loop takes next *)
BusRank(bus_no) == IF bus_no = "B1" THEN 0 ELSE 1

RowBefore(r1, r2) ==
    \/ BusRank(r1.bus_no) < BusRank(r2.bus_no)
    \/ /\ r1.bus_no = r2.bus_no
       /\ r1.start_timestamp <= r2.start_timestamp

FirstRows(rows) == {r \in rows : \A o \in rows : RowBefore(r, o)}

(* lines 1108-1127: one iteration of the loop; the session state is not    *)
(* touched.                                                                *)
ApiEnd ==
    /\ apiPc = "ending"
    /\ \E row \in FirstRows(apiRows.rows) :
          /\ journeys' = end_journey(journeys, row.journey_id, ApiEndTs(row))
          /\ IF apiRows.rows = {row}
             THEN apiPc' = "idle" /\ apiRows' = NoRows
             ELSE /\ apiPc' = apiPc
                  /\ apiRows' = [apiRows EXCEPT !.rows = @ \ {row}]
    /\ UNCHANGED <<now, buses, trip_points, fleet_state, last_stale_check,
                   pollPc, poll, staleRows, wsPc, ws, fixPc, fixPairs>>
    /\ UNCHANGED aux

----------------------------------------------------------------------------
(* websocket_listener.on_message *)

(* lines 434-438 *)
GpsLoss(state, timestamp, active_journey) ==
    /\ Get(state.last_signal_time) # NULL
    /\ timestamp - state.last_signal_time >= END_CONFIRM_THRESHOLD
    /\ active_journey # NoId

(* lines 411-445: a message with a position.  The session dict is created  *)
(* on first sight and the active journey is fetched.  Without a GPS loss   *)
(* the value fetched at line 431 is only overwritten by the re-fetch of    *)
(* line 445, so the two reads are one step; with a GPS loss the journey    *)
(* fetched at line 431 is ended and replaced in the steps that follow.     *)
(* Samples are delivered while the table holds fewer than limit rows.      *)
WsReadUpTo(limit, t, pos) ==
    /\ wsPc = "wait"
    /\ t \in Later
    /\ now' = t
    /\ buses.ws # NoBus
    /\ Len(trip_points) < limit
    /\ LET bus   == buses.ws
           state == IF InFleetState(fleet_state, bus) THEN fleet_state[bus]
                    ELSE WsInitState(t)
       IN  \E a \in get_active_journey(journeys, bus) :
              /\ ws' = [pos |-> pos, speed |-> 0, timestamp |-> t,
                        active_journey |-> a, idle_ended |-> FALSE,
                        created |-> FALSE]
              /\ IF GpsLoss(state, t, a)
                 THEN /\ fleet_state' = [fleet_state EXCEPT ![bus] = state]
                      /\ wsPc' = "gps-end"
                 ELSE /\ fleet_state' = [fleet_state EXCEPT ![bus] =
                                [state EXCEPT !.last_signal_time = t]]
                      /\ wsPc' = IF a = NoId THEN "create" ELSE "idle"
    /\ UNCHANGED <<buses, journeys, trip_points, last_stale_check,
                   pollPc, poll, staleRows, apiPc, apiRows, fixPc, fixPairs>>

(* a message with a position and without registrationNumber (line 404) *)
WsRead(t, pos) == WsReadUpTo(MaxPoints, t, pos) /\ UNCHANGED aux

(* line 439 *)
WsGpsEnd ==
    /\ wsPc = "gps-end"
    /\ journeys' = end_journey(journeys, ws.active_journey, ws.timestamp)
    /\ wsPc' = "gps-create"
    /\ UNCHANGED <<now, buses, trip_points, fleet_state, last_stale_check,
                   pollPc, poll, staleRows, ws, apiPc, apiRows, fixPc,
                   fixPairs>>
    /\ UNCHANGED aux

(* lines 440-442; a duplicate journey_id raises, and the exception ends    *)
(* the handler (line 517).                                                 *)
WsGpsCreate(t) ==
    /\ wsPc = "gps-create"
    /\ t \in Later
    /\ now' = t
    /\ IF CreateRaises(journeys, buses.ws, t)
       THEN /\ wsPc' = "wait"
            /\ ws' = NoSample
            /\ UNCHANGED <<journeys, fleet_state>>
       ELSE /\ journeys' = create_new_journey(journeys, buses.ws,
                                              ws.timestamp, t)
            /\ fleet_state' = [fleet_state EXCEPT
                                 ![buses.ws].last_signal_time = ws.timestamp]
            /\ ws' = [ws EXCEPT !.created = TRUE]
            /\ wsPc' = "refetch"
    /\ UNCHANGED <<buses, trip_points, last_stale_check, pollPc, poll,
                   staleRows, apiPc, apiRows, fixPc, fixPairs>>
    /\ UNCHANGED aux

(* line 445 *)
WsRefetch ==
    /\ wsPc = "refetch"
    /\ \E a \in get_active_journey(journeys, buses.ws) :
          /\ ws' = [ws EXCEPT !.active_journey = a]
          /\ wsPc' = IF a = NoId THEN "create" ELSE "idle"
    /\ UNCHANGED <<now, buses, journeys, trip_points, fleet_state,
                   last_stale_check, pollPc, poll, staleRows, apiPc, apiRows,
                   fixPc, fixPairs>>
    /\ UNCHANGED aux

(* lines 453-456 *)
Moved(state, pos) ==
    /\ Get(state.last_location) # NULL
    /\ haversine(state.last_location, pos) > RESUME_DISTANCE

(* lines 452-462: no active journey; one is created once the bus has moved *)
(* away from its last location, otherwise the location is remembered and   *)
(* the message is dropped.                                                 *)
WsCreate(t) ==
    /\ wsPc = "create"
    /\ t \in Later
    /\ now' = t
    /\ LET bus == buses.ws
       IN  IF Moved(fleet_state[bus], ws.pos)
           THEN IF CreateRaises(journeys, bus, t)
                THEN /\ wsPc' = "wait"
                     /\ ws' = NoSample
                     /\ UNCHANGED <<journeys, fleet_state>>
                ELSE /\ journeys' = create_new_journey(journeys, bus,
                                                       ws.timestamp, t)
                     /\ ws' = [ws EXCEPT
                                 !.active_journey = generate_journey_id(bus, t),
                                 !.created = TRUE]
                     /\ wsPc' = "idle"
                     /\ UNCHANGED fleet_state
           ELSE /\ fleet_state' = [fleet_state EXCEPT
                                     ![bus].last_location = ws.pos]
                /\ wsPc' = "wait"
                /\ ws' = NoSample
                /\ UNCHANGED journeys
    /\ UNCHANGED <<buses, trip_points, last_stale_check, pollPc, poll,
                   staleRows, apiPc, apiRows, fixPc, fixPairs>>
    /\ UNCHANGED aux

(* line 493 *)
WsIdleEnds(idle_duration, idle_distance) ==
    idle_duration >= END_CONFIRM_THRESHOLD /\ idle_distance <= IDLE_ANCHOR_RADIUS

(* lines 465-503: idle detection, measured from the last location.         *)
(* state["idle_location"] raises on a dict that does not hold the key, and *)
(* indexing None raises as well; the exception ends the handler.           *)
WsIdle ==
    /\ wsPc = "idle"
    /\ LET bus      == buses.ws
           state    == fleet_state[bus]
           lastloc  == Get(state.last_location)
           distance == haversine(lastloc, ws.pos)
           stamped  == IF state.idle_start_time = NULL
                         THEN [state EXCEPT !.idle_start_time = ws.timestamp,
                                            !.idle_location = ws.pos]
                         ELSE state
           cleared  == [state EXCEPT !.idle_start_time = NULL,
                                     !.idle_location = NULL]
           moveOn(st) ==
               /\ fleet_state' = [fleet_state EXCEPT ![bus] =
                                    [st EXCEPT !.last_location = ws.pos]]
               /\ wsPc' = "insert"
               /\ UNCHANGED <<journeys, ws>>
       IN  IF lastloc = NULL THEN moveOn(state)
           ELSE IF distance <= WS_STILL_RADIUS THEN moveOn(stamped)
           ELSE IF distance > WS_SLOW_RADIUS THEN moveOn(cleared)
           ELSE IF state.idle_start_time = NULL THEN moveOn(stamped)
           ELSE IF state.idle_location \in {Absent, NULL}
           THEN /\ wsPc' = "wait"
                /\ ws' = NoSample
                /\ UNCHANGED <<journeys, fleet_state>>
           ELSE IF WsIdleEnds(ws.timestamp - state.idle_start_time,
                              haversine(state.idle_location, ws.pos))
           THEN /\ journeys' = end_journey(journeys, ws.active_journey,
                                           ws.timestamp)
                /\ fleet_state' = [fleet_state EXCEPT ![bus] =
                                     [cleared EXCEPT !.last_location = ws.pos]]
                /\ ws' = [ws EXCEPT !.active_journey = NoId,
                                    !.idle_ended = TRUE]
                /\ wsPc' = "insert"
           ELSE moveOn(state)
    /\ UNCHANGED <<now, buses, trip_points, last_stale_check, pollPc, poll,
                   staleRows, apiPc, apiRows, fixPc, fixPairs>>
    /\ UNCHANGED aux

(* lines 505-513: the row is inserted with whatever active_journey holds,  *)
(* NULL after an idle end.                                                 *)
WsInsert ==
    /\ wsPc = "insert"
    /\ trip_points' = InsertPoint(trip_points, ws.active_journey,
                                  ws.timestamp, ws.pos, ws.speed)
    /\ wsPc' = "wait"
    /\ ws' = NoSample
    /\ UNCHANGED <<now, buses, journeys, fleet_state, last_stale_check,
                   pollPc, poll, staleRows, apiPc, apiRows, fixPc, fixPairs>>
    /\ UNCHANGED aux

----------------------------------------------------------------------------
(* fix_split_journeys *)

(* ORDER BY bus_no, start_timestamp (rows of equal start in id order) *)
StartsBefore(x, y) ==
    \/ x.start_timestamp < y.start_timestamp
    \/ /\ x.start_timestamp = y.start_timestamp
       /\ x.journey_id[2] <= y.journey_id[2]

RECURSIVE SortJourneys(_)
SortJourneys(S) ==
    IF S = {} THEN <<>>
    ELSE LET first == CHOOSE x \in S : \A y \in S : StartsBefore(x, y)
         IN  <<first>> \o SortJourneys(S \ {first})

ByBus(J, bus_no) == SortJourneys({j \in J : j.bus_no = bus_no})

(* A window that takes in the hour from 06:00 and a gap of 900 s *)
IsSplitInclusive(a, b) ==
    /\ a.end_timestamp # NULL
    /\ 0 <= IstHour(a.end_timestamp)
    /\ IstHour(a.end_timestamp) <= MIDNIGHT_CUT_HOURS
    /\ a.departure_date # b.departure_date
    /\ b.start_timestamp - a.end_timestamp <= SHORT_GAP

(* lines 998-1010 *)
IsSplit(a, b) ==
    /\ a.end_timestamp # NULL
    /\ 0 <= IstHour(a.end_timestamp)
    /\ IstHour(a.end_timestamp) < MIDNIGHT_CUT_HOURS
    /\ a.departure_date # b.departure_date
    /\ b.start_timestamp - a.end_timestamp < SHORT_GAP

(* lines 993-1021: the consecutive pairs of one bus that are split *)
PairAt(rows, i) ==
    [keep_journey_id |-> rows[i].journey_id,
     drop_journey_id |-> rows[i + 1].journey_id]

RECURSIVE PairsFrom(_, _)
PairsFrom(rows, i) ==
    IF i >= Len(rows) THEN <<>>
    ELSE (IF IsSplit(rows[i], rows[i + 1]) THEN <<PairAt(rows, i)>> ELSE <<>>)
         \o PairsFrom(rows, i + 1)

Candidates(J) == PairsFrom(ByBus(J, "B1"), 1) \o PairsFrom(ByBus(J, "S1"), 1)

(* line 1046 *)
Repoint(P, keep_id, drop_id) ==
    [i \in DOMAIN P |-> IF P[i].journey_id = drop_id
                          THEN [P[i] EXCEPT !.journey_id = keep_id]
                          ELSE P[i]]

(* lines 1049-1056: the kept journey takes the dropped journey's end and   *)
(* status, when the dropped row is still there.                            *)
Inherit(J, keep_id, drop_id) ==
    LET dropped == {d \in J : d.journey_id = drop_id}
    IN  IF dropped = {} THEN J
        ELSE LET drop_row == CHOOSE d \in dropped : TRUE
             IN  {IF j.journey_id = keep_id
                    THEN [j EXCEPT !.end_timestamp = drop_row.end_timestamp,
                                   !.status = drop_row.status]
                    ELSE j : j \in J}

(* line 1059 *)
DeleteJourney(J, drop_id) == {j \in J : j.journey_id # drop_id}

(* lines 1041-1060: one pair *)
MergePair(db, pair) ==
    [journeys |-> DeleteJourney(Inherit(db.journeys, pair.keep_journey_id,
                                        pair.drop_journey_id),
                                pair.drop_journey_id),
     trip_points |-> Repoint(db.trip_points, pair.keep_journey_id,
                             pair.drop_journey_id)]

RECURSIVE MergeAll(_, _)
MergeAll(db, pairs) ==
    IF pairs = <<>> THEN db
    ELSE MergeAll(MergePair(db, Head(pairs)), Tail(pairs))

(* lines 974-1037: the SELECT and the candidates; GET answers with them,   *)
(* POST goes on to merge.                                                  *)
FixSelect(dry_run) ==
    /\ fixPc = "idle"
    /\ IF Candidates(journeys) = <<>>
       THEN UNCHANGED <<fixPc, fixPairs>>
       ELSE /\ fixPairs' = Candidates(journeys)
            /\ fixPc' = IF dry_run THEN "preview" ELSE "apply"
    /\ UNCHANGED <<now, buses, journeys, trip_points, fleet_state,
                   last_stale_check, pollPc, poll, staleRows, wsPc, ws,
                   apiPc, apiRows>>
    /\ UNCHANGED aux

(* A dry run that goes on to merge *)
FixPreviewMerges ==
    /\ fixPc = "preview"
    /\ LET db == MergeAll([journeys |-> journeys, trip_points |-> trip_points],
                          fixPairs)
       IN  /\ journeys' = db.journeys
           /\ trip_points' = db.trip_points
    /\ fixPc' = "idle"
    /\ fixPairs' = <<>>
    /\ UNCHANGED <<now, buses, fleet_state, last_stale_check, pollPc, poll,
                   staleRows, wsPc, ws, apiPc, apiRows>>
    /\ UNCHANGED aux

(* lines 1031-1037 *)
FixPreview ==
    /\ fixPc = "preview"
    /\ fixPc' = "idle"
    /\ fixPairs' = <<>>
    /\ UNCHANGED <<now, buses, journeys, trip_points, fleet_state,
                   last_stale_check, pollPc, poll, staleRows, wsPc, ws,
                   apiPc, apiRows>>
    /\ UNCHANGED aux

(* the statements of the apply loop in execution order, three per pair:   *)
(* lines 1046, 1049-1056 and 1059                                          *)
RunStatement(db, pair, k) ==
    IF k = 1
      THEN [db EXCEPT !.trip_points = Repoint(@, pair.keep_journey_id,
                                              pair.drop_journey_id)]
    ELSE IF k = 2
      THEN [db EXCEPT !.journeys = Inherit(@, pair.keep_journey_id,
                                           pair.drop_journey_id)]
    ELSE [db EXCEPT !.journeys = DeleteJourney(@, pair.drop_journey_id)]

(* the store after the first n statements *)
RECURSIVE RunStatements(_, _, _)
RunStatements(db, pairs, n) ==
    IF n = 0 THEN db
    ELSE LET done == RunStatements(db, pairs, n - 1)
         IN  RunStatement(done, pairs[((n - 1) \div 3) + 1], ((n - 1) % 3) + 1)

NoFailure == 0 - 1

(* a statement of the loop may raise (the database is locked, the disk is  *)
(* full): failed_at is the number of statements that ran before it         *)
FailurePoints(pairs) == {NoFailure} \cup (0 .. (3 * Len(pairs) - 1))

(* A connection that commits after every statement *)
CommittedPerStatement(db, pairs, failed_at) ==
    IF failed_at = NoFailure THEN MergeAll(db, pairs)
    ELSE RunStatements(db, pairs, failed_at)

(* lines 1039-1063: the statements run in one transaction on one           *)
(* connection, committed at line 1062 after the loop; an exception leaves  *)
(* the handler before the commit and the connection is dropped, which      *)
(* rolls the transaction back.                                             *)
Committed(db, pairs, failed_at) ==
    IF failed_at = NoFailure THEN MergeAll(db, pairs) ELSE db

(* lines 1039-1063: POST, the merges *)
FixApply(failed_at) ==
    /\ fixPc = "apply"
    /\ failed_at \in FailurePoints(fixPairs)
    /\ LET db == Committed([journeys |-> journeys,
                            trip_points |-> trip_points],
                           fixPairs, failed_at)
       IN  /\ journeys' = db.journeys
           /\ trip_points' = db.trip_points
    /\ fixPc' = "idle"
    /\ fixPairs' = <<>>
    /\ UNCHANGED <<now, buses, fleet_state, last_stale_check, pollPc, poll,
                   staleRows, wsPc, ws, apiPc, apiRows>>
    /\ UNCHANGED aux

----------------------------------------------------------------------------
(* The route reconstructor, the fleet-list loop and the websocket          *)
(* connection at rest                                                      *)

NoRoute ==
    [pc |-> "idle", rows |-> <<>>, segments |-> <<>>, seg_idx |-> 1,
     batch_start |-> 0, sent |-> <<>>, matched_coords |-> <<>>]

NoCycle ==
    [pc |-> "idle", fleet |-> <<>>, rest |-> <<>>, seen |-> {},
     failed |-> NoBus]

NoListener ==
    [ws_started |-> FALSE, threads |-> 0, depth |-> 0, pc |-> "none",
     slept |-> 0]

(* line 55: service_vehicle_map = {} *)
NoVehicle == ""

NoVehicles == [k \in Keys |-> NoVehicle]

----------------------------------------------------------------------------

Init ==
    /\ now = StartTime
    /\ buses \in {[poll |-> "B1", ws |-> NoBus], [poll |-> NoBus, ws |-> "S1"]}
    /\ journeys = {}
    /\ trip_points = <<>>
    /\ fleet_state = [k \in Keys |-> NoState]
    /\ last_stale_check = 0
    /\ pollPc = "poll" /\ poll = NoSample /\ staleRows = NoRows
    /\ wsPc = "wait" /\ ws = NoSample
    /\ apiPc = "idle" /\ apiRows = NoRows
    /\ fixPc = "idle" /\ fixPairs = <<>>
    /\ route = NoRoute /\ cycle = NoCycle /\ listener = NoListener
    /\ service_vehicle_map = NoVehicles

Next ==
    \/ \E t \in Later, pos \in Positions, speed \in Speeds : PollRead(t, pos, speed)
    \/ \E t \in Later : PollSkip(t)
    \/ PollIdle
    \/ \E t \in Later : PollCreate(t)
    \/ PollInsert
    \/ \E t \in Later : AutoSelect(t)
    \/ AutoEnd
    \/ \E t \in Later : ApiSelect(t)
    \/ ApiEnd
    \/ \E t \in Later, pos \in Positions : WsRead(t, pos)
    \/ WsGpsEnd
    \/ \E t \in Later : WsGpsCreate(t)
    \/ WsRefetch
    \/ \E t \in Later : WsCreate(t)
    \/ WsIdle
    \/ WsInsert
    \/ \E dry_run \in BOOLEAN : FixSelect(dry_run)
    \/ FixPreview
    \/ \E failed_at \in FailurePoints(fixPairs) : FixApply(failed_at)

Spec == Init /\ [][Next]_vars

(* The same service number on both feeds: the tracking loop and a         *)
(* websocket listener then work on one fleet_state entry and one bus_no.   *)
(* The behaviours followed are those of one polling cycle of the tracking  *)
(* loop, up to its call of the janitor, against the listener's messages.   *)
InitShared ==
    /\ now = StartTime
    /\ buses = [poll |-> "B1", ws |-> "B1"]
    /\ journeys = {}
    /\ trip_points = <<>>
    /\ fleet_state = [k \in Keys |-> NoState]
    /\ last_stale_check = 0
    /\ pollPc = "poll" /\ poll = NoSample /\ staleRows = NoRows
    /\ wsPc = "wait" /\ ws = NoSample
    /\ apiPc = "idle" /\ apiRows = NoRows
    /\ fixPc = "idle" /\ fixPairs = <<>>
    /\ route = NoRoute /\ cycle = NoCycle /\ listener = NoListener
    /\ service_vehicle_map = NoVehicles

NextShared ==
    \/ \E t \in Later, pos \in Positions, speed \in Speeds : PollRead(t, pos, speed)
    \/ PollIdle
    \/ \E t \in Later : PollCreate(t)
    \/ PollInsert
    \/ \E t \in Later, pos \in Positions : WsRead(t, pos)
    \/ WsGpsEnd
    \/ \E t \in Later : WsGpsCreate(t)
    \/ WsRefetch
    \/ \E t \in Later : WsCreate(t)
    \/ WsIdle
    \/ WsInsert

SpecShared == InitShared /\ [][NextShared]_vars

----------------------------------------------------------------------------
(* The corrector alone, over journeys tables of up to three journeys whose *)
(* starts and ends lie around midnight, around 06:00 and a day later; each *)
(* journey has one sample, taken at its start.                             *)

At(day, hour, minute) == day * DAY + hour * HOUR + minute * 60 - IST_OFFSET

FixTimes ==
    {At(0, 23, 0), At(1, 0, 10), At(1, 0, 20), At(1, 0, 25),
     At(1, 6, 0), At(1, 6, 5), At(2, 0, 5), At(2, 0, 10)}

FixRow(bus_no, start, end) ==
    [journey_id |-> generate_journey_id(bus_no, start), bus_no |-> bus_no,
     departure_date |-> DepartureDate(start),
     start_timestamp |-> start, end_timestamp |-> end,
     status |-> IF end = NULL THEN "active" ELSE "ended"]

EndsFrom(start) == {NULL} \cup {e \in FixTimes : e >= start}

FixJourneys ==
    UNION {{FixRow(b, start, end) : b \in Keys, end \in EndsFrom(start)} :
             start \in FixTimes}

(* journeys of one bus follow one another: the earlier one has ended when  *)
(* the later one starts                                                    *)
Follows(a, b) ==
    /\ a.start_timestamp < b.start_timestamp
    /\ a.end_timestamp # NULL
    /\ a.end_timestamp <= b.start_timestamp

WellFormed(T) ==
    \A a \in T : \A b \in T \ {a} :
       a.bus_no = b.bus_no => (Follows(a, b) \/ Follows(b, a))

FixTables ==
    {T \in {{a, b, c} : a \in FixJourneys, b \in FixJourneys,
                        c \in FixJourneys} : WellFormed(T)}

OnePointEach(T) ==
    LET rows == ByBus(T, "B1") \o ByBus(T, "S1")
    IN  [i \in 1 .. Len(rows) |->
            PointRow(rows[i].journey_id, rows[i].start_timestamp, 0, 8)]

InitFix ==
    /\ now = StartTime
    /\ buses = [poll |-> "B1", ws |-> "S1"]
    /\ journeys \in FixTables
    /\ trip_points = OnePointEach(journeys)
    /\ fleet_state = [k \in Keys |-> NoState]
    /\ last_stale_check = 0
    /\ pollPc = "poll" /\ poll = NoSample /\ staleRows = NoRows
    /\ wsPc = "wait" /\ ws = NoSample
    /\ apiPc = "idle" /\ apiRows = NoRows
    /\ fixPc = "idle" /\ fixPairs = <<>>
    /\ route = NoRoute /\ cycle = NoCycle /\ listener = NoListener
    /\ service_vehicle_map = NoVehicles

NextFix ==
    \/ \E dry_run \in BOOLEAN : FixSelect(dry_run)
    \/ FixPreview
    \/ \E failed_at \in FailurePoints(fixPairs) : FixApply(failed_at)

SpecFix == InitFix /\ [][NextFix]_vars

----------------------------------------------------------------------------
(* A whole janitor sweep, run without interruption *)

Store ==
    [journeys |-> journeys, trip_points |-> trip_points,
     fleet_state |-> fleet_state, last_stale_check |-> last_stale_check]

RECURSIVE AutoEndAll(_, _, _)
AutoEndAll(db, rows, t) ==
    IF rows = {} THEN db
    ELSE LET row == CHOOSE r \in rows : TRUE
         IN  AutoEndAll(
               [db EXCEPT
                  !.journeys = end_journey(@, row.journey_id, AutoEndTs(row, t)),
                  !.fleet_state = ClearIdle(@, row.bus_no)],
               rows \ {row}, t)

auto_end_stale_journeys(db, t) ==
    IF t - db.last_stale_check < STALE_CHECK_INTERVAL THEN db
    ELSE AutoEndAll([db EXCEPT !.last_stale_check = t],
                    StaleRows(db.journeys, db.trip_points, t - STALE_WINDOW), t)

RECURSIVE ApiEndAll(_, _)
ApiEndAll(db, rows) ==
    IF rows = {} THEN db
    ELSE LET row == CHOOSE r \in FirstRows(rows) : TRUE
         IN  ApiEndAll(
               [db EXCEPT
                  !.journeys = end_journey(@, row.journey_id, ApiEndTs(row))],
               rows \ {row})

end_stale_journeys(db, t) ==
    ApiEndAll(db, StaleRows(db.journeys, db.trip_points, t - STALE_WINDOW))

----------------------------------------------------------------------------
(* Vocabulary of the properties *)

ActiveJourneys(J, bus_no) ==
    {j \in J : j.bus_no = bus_no /\ j.status = "active"}

EndedJourneys(J, bus_no) ==
    {j \in J : j.bus_no = bus_no /\ j.status = "ended"}

(* the latest sample of a journey, or its start when it has none *)
LastActivity(j, P) ==
    IF LastPing(P, j.journey_id) = NULL THEN j.start_timestamp
    ELSE LastPing(P, j.journey_id)

(* the same, as a sweep's SELECT found it *)
RowActivity(row) ==
    IF row.last_ping = NULL THEN row.start_timestamp ELSE row.last_ping

(* journeys active before a step and ended after it *)
ClosedByStep ==
    {j \in journeys : /\ j.status = "active"
                      /\ \E k \in journeys' : /\ k.journey_id = j.journey_id
                                              /\ k.status = "ended"}

EndOf(J, journey_id) ==
    (CHOOSE k \in J : k.journey_id = journey_id).end_timestamp

IsSet(v) == v # NULL /\ v # Absent

HasIdleAnchor(state) ==
    \/ IsSet(state.idle_start_time)
    \/ IsSet(state.idle_start_location)
    \/ IsSet(state.idle_location)

----------------------------------------------------------------------------
C2_SharedKeyOneActive ==
    /\ \A b \in Keys : Cardinality(ActiveJourneys(journeys, b)) <= 1
    /\ (pollPc = "create" /\ IsMoving(poll.speed))
          => ~CreateRaises(journeys, buses.poll, now)
    /\ (wsPc = "create" /\ Moved(fleet_state[buses.ws], ws.pos))
          => ~CreateRaises(journeys, buses.ws, now)

(* C3: a second sweep over the swept store changes nothing at the same     *)
(* instant, and at any later instant leaves every journey the first sweep  *)
(* left ended, and every sample, as they were.                             *)
C3_JanitorIdempotent ==
    \A t \in Later : \A u \in {x \in Later : x >= t} :
       LET autoOnce  == auto_end_stale_journeys(Store, t)
           autoTwice == auto_end_stale_journeys(autoOnce, u)
           apiOnce   == end_stale_journeys(Store, t)
           apiTwice  == end_stale_journeys(apiOnce, u)
       IN  /\ u = t => (autoTwice = autoOnce /\ apiTwice = apiOnce)
           /\ autoTwice.trip_points = autoOnce.trip_points
           /\ apiTwice.trip_points = apiOnce.trip_points
           /\ \A j \in autoOnce.journeys :
                 j.status = "ended" => j \in autoTwice.journeys
           /\ \A j \in apiOnce.journeys :
                 j.status = "ended" => j \in apiTwice.journeys

(* a store in which a sweep at the current instant closes a journey that   *)
(* has samples and one that has none                                       *)
C3_Witness ==
    LET rows == StaleRows(journeys, trip_points, now - STALE_WINDOW)
    IN  /\ \E r \in rows : r.last_ping # NULL
        /\ now - last_stale_check >= STALE_CHECK_INTERVAL

(* C4: a journey the janitor closes gets as end_timestamp its last         *)
(* activity, the latest sample the sweep found or else its                 *)
(* start_timestamp, never the instant of the sweep.                        *)
C4_JanitorEndsAtLastActivity ==
    [][/\ AutoEnd => \A j \in ClosedByStep : \A r \in staleRows.rows :
            r.journey_id = j.journey_id
            => EndOf(journeys', j.journey_id) = RowActivity(r)
       /\ ApiEnd => \A j \in ClosedByStep : \A r \in apiRows.rows :
            r.journey_id = j.journey_id
            => EndOf(journeys', j.journey_id) = RowActivity(r)]_vars

(* C5: the janitor closes an active journey exactly when its last          *)
(* activity is more than an hour before the sweep's instant; a journey     *)
(* with no sample that started within the hour stays open.                 *)
C5_JanitorClosesOnlyStale ==
    [][/\ AutoEnd => \A j \in ClosedByStep : \A r \in staleRows.rows :
            r.journey_id = j.journey_id
            => RowActivity(r) < staleRows.now - STALE_WINDOW
       /\ ApiEnd => \A j \in ClosedByStep : \A r \in apiRows.rows :
            r.journey_id = j.journey_id
            => RowActivity(r) < apiRows.now - STALE_WINDOW
       /\ (apiPc = "idle" /\ apiPc' = "ending") =>
            \A j \in journeys :
               (j.status = "active"
                  /\ LastActivity(j, trip_points) < now' - STALE_WINDOW)
               => j.journey_id \in {r.journey_id : r \in apiRows'.rows}]_vars

(* C6: when the janitor closes a journey, in the tracking loop or on       *)
(* POST /end-stale-journeys, the vehicle's session state holds no idle     *)
(* anchor afterwards, neither its time nor its location.                   *)
C6_JanitorClearsAnchor ==
    [][(AutoEnd \/ ApiEnd) =>
         \A j \in ClosedByStep : ~HasIdleAnchor(fleet_state'[j.bus_no])]_vars

(* C7: for a sample of a vehicle without an active journey, on either      *)
(* feed: at a speed of at most MOVEMENT_THRESHOLD no journey is created    *)
(* and the sample is not stored; above it exactly one journey is created   *)
(* and the sample goes on to be stored in it.                              *)
C7_MovementGate ==
    [][/\ (\E t \in Later : PollCreate(t)) =>
            IF poll.speed > MOVEMENT_THRESHOLD
              THEN /\ Cardinality(journeys' \ journeys) = 1
                   /\ journeys \subseteq journeys'
                   /\ pollPc' = "insert"
                   /\ poll'.active_journey \in JourneyIds(journeys' \ journeys)
              ELSE journeys' = journeys /\ pollPc' # "insert"
       /\ (\E t \in Later : WsCreate(t)) =>
            IF ws.speed > MOVEMENT_THRESHOLD
              THEN /\ Cardinality(journeys' \ journeys) = 1
                   /\ journeys \subseteq journeys'
                   /\ ws'.active_journey \in JourneyIds(journeys' \ journeys)
              ELSE journeys' = journeys /\ ws'.active_journey = NoId]_vars

(* C8: on the polling feed, while an idle anchor is set, a sample within   *)
(* IDLE_ANCHOR_RADIUS of the anchor location leaves the anchor's time and  *)
(* location as they were, whatever its distance from the previous sample;  *)
(* and the sample whose timestamp reaches the anchor time plus             *)
(* END_CONFIRM_THRESHOLD ends the active journey at that timestamp.        *)
C8_AnchorDriftResistance ==
    [][PollIdle =>
         LET state == fleet_state[buses.poll]
             after == fleet_state'[buses.poll]
         IN  (/\ IsSet(state.idle_start_time)
              /\ IsSet(state.idle_start_location)
              /\ haversine(state.idle_start_location, poll.pos)
                    <= IDLE_ANCHOR_RADIUS)
             => IF /\ poll.active_journey # NoId
                   /\ poll.timestamp >= state.idle_start_time
                                          + END_CONFIRM_THRESHOLD
                THEN \A j \in journeys :
                        j.journey_id = poll.active_journey
                        => /\ j.journey_id \in JourneyIds(journeys')
                           /\ EndOf(journeys', j.journey_id) = poll.timestamp
                           /\ \A k \in journeys' :
                                 k.journey_id = j.journey_id
                                 => k.status = "ended"
                ELSE /\ after.idle_start_time = state.idle_start_time
                     /\ after.idle_start_location = state.idle_start_location]_vars

(* an idle end by a sample that drifted from the previous one but stayed   *)
(* within the radius of the anchor                                         *)
C8_Witness ==
    /\ pollPc = "create"
    /\ poll.idle_ended
    /\ Get(fleet_state[buses.poll].last_location) # NULL
    /\ fleet_state[buses.poll].last_location # poll.pos

(* C9: the sample that ends a journey for idleness does not open a new     *)
(* one, whatever its speed, and leaves the idle anchor cleared.            *)
C9_IdleEndOpensNoJourney ==
    /\ poll.idle_ended =>
          /\ ~poll.created
          /\ ~HasIdleAnchor(fleet_state[buses.poll])
    /\ ws.idle_ended => ~ws.created

(* C10: a sample is appended only to a journey that is active at the       *)
(* moment of the append.                                                   *)
C10_AppendOnlyToActive ==
    [][Len(trip_points') = Len(trip_points) + 1 =>
         \E j \in journeys :
            /\ j.journey_id = trip_points'[Len(trip_points')].journey_id
            /\ j.status = "active"]_vars

----------------------------------------------------------------------------
(* The route reconstructor: match_points_valhalla on the rows of one       *)
(* /route-matched request.  A row is (lat, lon, timestamp); positions are  *)
(* metres along one line, so lon is 0 for every sample.                    *)

JITTER_DISTANCE == 20
MAX_GAP_SECONDS == 600
BATCH == 100

MaxRows == 201
MaxGaps == 2

(* the longitude of the road the matcher snaps to: a coordinate tells      *)
(* whether it is a raw sample (lon 0) or decoded road geometry             *)
ROAD == 1

Min(a, b) == IF a <= b THEN a ELSE b

(* line 695: the row is kept when it is more than 20 m from the last kept  *)
KeptAfter(filtered, row) ==
    haversine(filtered[Len(filtered)].lat, row.lat) > JITTER_DISTANCE

(* lines 693-696: one iteration of the loop *)
FilterRow(filtered, row) ==
    IF KeptAfter(filtered, row) THEN Append(filtered, row) ELSE filtered

(* lines 692-697: the loop over rows[lo .. hi] in order, the first half    *)
(* and then the second; filtered holds rows[0] from line 692 on, and the   *)
(* test on it has the first half computed before the second starts         *)
RECURSIVE FilterRange(_, _, _, _)
FilterRange(filtered, rows, lo, hi) ==
    IF lo > hi THEN filtered
    ELSE IF lo = hi THEN FilterRow(filtered, rows[lo])
    ELSE LET mid == (lo + hi) \div 2
             half == FilterRange(filtered, rows, lo, mid)
         IN  IF half = <<>> THEN half
             ELSE FilterRange(half, rows, mid + 1, hi)

JitterFilter(rows) == FilterRange(<<rows[1]>>, rows, 2, Len(rows))

(* A split that also cuts at a gap of exactly the maximum *)
IsGapInclusive(current, row) ==
    row.timestamp - current[Len(current)].timestamp >= MAX_GAP_SECONDS

(* lines 709-710 *)
IsGap(current, row) ==
    row.timestamp - current[Len(current)].timestamp > MAX_GAP_SECONDS

(* lines 711-712, 717-718: a segment of one point is dropped *)
Close(segments, current) ==
    IF Len(current) >= 2 THEN Append(segments, current) ELSE segments

(* lines 708-715: one iteration of the loop *)
SplitRow(acc, row) ==
    IF IsGap(acc.current, row)
      THEN [segments |-> Close(acc.segments, acc.current), current |-> <<row>>]
      ELSE [acc EXCEPT !.current = Append(@, row)]

(* lines 708-715: the loop over rows[lo .. hi] in order, the first half    *)
(* and then the second; current is never empty (lines 706, 713, 715)       *)
RECURSIVE SplitRange(_, _, _, _)
SplitRange(acc, rows, lo, hi) ==
    IF lo > hi THEN acc
    ELSE IF lo = hi THEN SplitRow(acc, rows[lo])
    ELSE LET mid == (lo + hi) \div 2
             half == SplitRange(acc, rows, lo, mid)
         IN  IF half.current = <<>> THEN half
             ELSE SplitRange(half, rows, mid + 1, hi)

(* lines 705-718 *)
SplitOnGaps(rows) ==
    LET acc == SplitRange([segments |-> <<>>, current |-> <<rows[1]>>],
                          rows, 2, Len(rows))
    IN  Close(acc.segments, acc.current)

(* Batches laid end to end, without the shared point *)
BatchStepDisjoint == BATCH

(* line 730: the step of range(0, len(segment), BATCH - 1) *)
BatchStep == BATCH - 1

(* line 731: segment[batch_start : batch_start + BATCH] *)
BatchAt(segment, batch_start) ==
    SubSeq(segment, batch_start + 1, Min(batch_start + BATCH, Len(segment)))

(* lines 764, 787, 791: [[lat, lon] for lat, lon, ts in batch] *)
RawPoints(batch) == [i \in DOMAIN batch |-> <<batch[i].lat, batch[i].lon>>]

(* A fallback that leaves the failed batch out of the route *)
FallbackNothing(batch) == <<>>

Fallback(batch) == RawPoints(batch)

(* lines 774-781: the decoded leg geometry of a matched batch; the road    *)
(* passes every sample of the batch                                        *)
LegCoords(batch) == [i \in DOMAIN batch |-> <<batch[i].lat, ROAD>>]

(* what the call at lines 755-759 may come to *)
Outcomes == {"matched", "status", "no_legs", "exception"}

(* lines 762-791: what one batch adds to matched_coords *)
Extend(batch, outcome) ==
    IF outcome = "matched" THEN LegCoords(batch) ELSE Fallback(batch)

(* lines 725, 730: the next iteration of the two loops, or line 794 *)
Advance(r) ==
    IF r.batch_start + BatchStep < Len(r.segments[r.seg_idx])
      THEN [r EXCEPT !.batch_start = @ + BatchStep]
    ELSE IF r.seg_idx < Len(r.segments)
      THEN [r EXCEPT !.seg_idx = @ + 1, !.batch_start = 0]
    ELSE [r EXCEPT !.pc = "returned"]

CurrentBatch(r) == BatchAt(r.segments[r.seg_idx], r.batch_start)

(* lines 687-701 *)
RouteFilter ==
    /\ route.pc = "called"
    /\ route' =
         IF Len(route.rows) < 2
           THEN [route EXCEPT !.pc = "returned"]
         ELSE LET filtered == JitterFilter(route.rows)
              IN  [route EXCEPT !.rows = filtered,
                                !.pc = IF Len(filtered) < 2
                                         THEN "returned" ELSE "split"]
    /\ UNCHANGED <<core, cycle, listener, service_vehicle_map>>

(* lines 703-725 *)
RouteSplit ==
    /\ route.pc = "split"
    /\ LET segments == SplitOnGaps(route.rows)
       IN  route' = [route EXCEPT !.segments = segments,
                                  !.seg_idx = 1,
                                  !.batch_start = 0,
                                  !.pc = IF segments = <<>>
                                           THEN "returned" ELSE "batch"]
    /\ UNCHANGED <<core, cycle, listener, service_vehicle_map>>

(* lines 730-733: a batch of one point is not submitted *)
RouteSkip ==
    /\ route.pc = "batch"
    /\ Len(CurrentBatch(route)) < 2
    /\ route' = Advance(route)
    /\ UNCHANGED <<core, cycle, listener, service_vehicle_map>>

(* lines 730-791: one batch is posted to the matcher; sent keeps the       *)
(* payloads posted so far and what came of each                            *)
RouteBatch(outcome) ==
    /\ route.pc = "batch"
    /\ Len(CurrentBatch(route)) >= 2
    /\ LET batch == CurrentBatch(route)
       IN  route' = Advance(
             [route EXCEPT
                !.sent = Append(@, [seg_idx |-> route.seg_idx,
                                    batch_start |-> route.batch_start,
                                    batch |-> batch,
                                    outcome |-> outcome]),
                !.matched_coords = @ \o Extend(batch, outcome)])
    /\ UNCHANGED <<core, cycle, listener, service_vehicle_map>>

(* The rows of a request: n samples a polling interval apart and a stride  *)
(* apart, except that the rows at the indices in gaps come gap seconds     *)
(* after their predecessor and the rows at the indices in still advance    *)
(* by creep metres only.                                                   *)
STRIDE == 30

RowAt(plan, i) ==
    LET late == Cardinality({k \in plan.gaps : k <= i})
        slow == Cardinality({k \in plan.still : k <= i})
    IN  [lat |-> STRIDE * (i - 1) - (STRIDE - plan.creep) * slow,
         lon |-> 0,
         timestamp |-> StartTime + CHECK_INTERVAL * (i - 1)
                         + (plan.gap - CHECK_INTERVAL) * late]

RowsOf(plan) == [i \in 1 .. plan.n |-> RowAt(plan, i)]

RowCounts ==
    {0, 1, 2, 3, 7, BATCH - 1, BATCH, BATCH + 1, 2 * BATCH - 1, 2 * BATCH,
     MaxRows}

GapSpots(n) == {5, 6, BATCH + 2} \cap (2 .. n)

GapSets(n) == {G \in SUBSET GapSpots(n) : Cardinality(G) <= MaxGaps}

GapSizes == {MAX_GAP_SECONDS - 200, MAX_GAP_SECONDS, MAX_GAP_SECONDS + 1, 700}

StillSets(n) == {S \in {{}, {2}, {5}, {5, 6}} : S \subseteq (2 .. n)}

Plans ==
    UNION {{[n |-> n, gaps |-> G, gap |-> g, still |-> S, creep |-> c] :
              G \in GapSets(n), g \in GapSizes, S \in StillSets(n),
              c \in {JITTER_DISTANCE, JITTER_DISTANCE + 1}} :
           n \in RowCounts}

(* line 858: match_points_valhalla(rows) is called *)
InitRoute ==
    /\ now = StartTime
    /\ buses = [poll |-> "B1", ws |-> "S1"]
    /\ journeys = {}
    /\ trip_points = <<>>
    /\ fleet_state = [k \in Keys |-> NoState]
    /\ last_stale_check = 0
    /\ pollPc = "poll" /\ poll = NoSample /\ staleRows = NoRows
    /\ wsPc = "wait" /\ ws = NoSample
    /\ apiPc = "idle" /\ apiRows = NoRows
    /\ fixPc = "idle" /\ fixPairs = <<>>
    /\ route \in {[NoRoute EXCEPT !.pc = "called", !.rows = RowsOf(plan)] :
                    plan \in Plans}
    /\ cycle = NoCycle /\ listener = NoListener
    /\ service_vehicle_map = NoVehicles

NextRoute ==
    \/ RouteFilter
    \/ RouteSplit
    \/ RouteSkip
    \/ \E outcome \in Outcomes : RouteBatch(outcome)

SpecRoute == InitRoute /\ [][NextRoute]_vars

----------------------------------------------------------------------------
(* The two workers' control flow: the tracking loop over the fleet list    *)
(* with its try/except and the janitor call, and the websocket listener    *)
(* with its reconnect in on_close.  The feeds report nothing to store      *)
(* here (the trackapp answer is not "Ok", line 267, or the call raises),   *)
(* so the store stays as it is; what a sample does to it is in Spec.       *)

RECONNECT_DELAY == 5

(* how many activations of websocket_listener the interpreter's stack      *)
(* admits: each reconnect runs websocket_listener inside on_close inside   *)
(* run_forever of the one before (line 525), and the recursion limit is    *)
(* never raised by the program                                             *)
MaxDepth == 3

TrackappBuses == {"B1", "B2"}
WebsocketBuses == {"S1"}

(* buses.json: the entries in file order, no bus twice *)
FleetLists ==
    {f \in UNION {[1 .. n -> TrackappBuses \cup WebsocketBuses] : n \in 0 .. 3} :
        \A i \in DOMAIN f : \A j \in DOMAIN f : f[i] = f[j] => i = j}

(* line 205: load_buses(); the for loop starts *)
LoopLoad ==
    /\ cycle.pc = "load"
    /\ cycle' = [cycle EXCEPT !.rest = cycle.fleet,
                              !.seen = {},
                              !.failed = NoBus,
                              !.pc = IF cycle.fleet = <<>>
                                       THEN "janitor" ELSE "bus"]
    /\ UNCHANGED <<core, route, listener, service_vehicle_map>>

(* lines 207-234: a websocket entry of the fleet list: the listener        *)
(* thread is started the first time the entry is met                       *)
LoopWsBus ==
    /\ cycle.pc = "bus"
    /\ Head(cycle.rest) \in WebsocketBuses
    /\ listener' = IF listener.ws_started THEN listener
                   ELSE [listener EXCEPT !.ws_started = TRUE,
                                         !.threads = @ + 1,
                                         !.depth = 1,
                                         !.pc = "connect"]
    /\ cycle' = [cycle EXCEPT !.rest = Tail(@),
                              !.pc = IF Tail(cycle.rest) = <<>>
                                       THEN "janitor" ELSE "bus"]
    /\ UNCHANGED <<core, route, service_vehicle_map>>

(* lines 203, 370-371: the try encloses the for loop, so an exception      *)
(* raised for one bus leaves the loop                                      *)
Raised(c) ==
    [c EXCEPT !.failed = Head(c.rest), !.pc = "janitor"]

(* lines 241-268: a trackapp entry: the feed is called (line 258) and      *)
(* either answers, here with msg other than "Ok" (line 268), or raises:    *)
(* a timeout, a body that is not JSON (line 265), a missing key (267)      *)
LoopTrackappBus(outcome) ==
    /\ cycle.pc = "bus"
    /\ Head(cycle.rest) \in TrackappBuses
    /\ cycle' = IF outcome = "raise"
                  THEN Raised(cycle)
                  ELSE [cycle EXCEPT !.seen = @ \cup {Head(cycle.rest)},
                                     !.rest = Tail(@),
                                     !.pc = IF Tail(cycle.rest) = <<>>
                                              THEN "janitor" ELSE "bus"]
    /\ UNCHANGED <<core, route, listener, service_vehicle_map>>

(* lines 373, 154-181: the janitor; when the sweep is due it stamps        *)
(* _last_stale_check (line 161) and opens the database (lines 164-177),    *)
(* which may raise; the store has no journey to end here.  The call is     *)
(* after the except clause, outside the try: its exception leaves          *)
(* tracking_loop.                                                          *)
LoopJanitor(outcome) ==
    /\ cycle.pc = "janitor"
    /\ IF now - last_stale_check < STALE_CHECK_INTERVAL
         THEN /\ outcome = "ok"
              /\ UNCHANGED last_stale_check
         ELSE last_stale_check' = now
    /\ cycle' = [cycle EXCEPT !.pc = IF outcome = "raise"
                                       THEN "terminated" ELSE "sleep"]
    /\ UNCHANGED <<now, buses, journeys, trip_points, fleet_state, pollPc,
                   poll, staleRows, wsPc, ws, apiPc, apiRows, fixPc, fixPairs,
                   route, listener, service_vehicle_map>>

(* line 374 *)
LoopSleep ==
    /\ cycle.pc = "sleep"
    /\ cycle' = [cycle EXCEPT !.pc = "load"]
    /\ UNCHANGED <<core, route, listener, service_vehicle_map>>

(* lines 530-536: run_forever connects; the connection opens, or the       *)
(* attempt fails and the library calls on_close                            *)
RunForever(outcome) ==
    /\ listener.pc = "connect"
    /\ listener' = [listener EXCEPT !.pc = IF outcome = "open"
                                             THEN "open" ELSE "closed"]
    /\ UNCHANGED <<core, route, cycle, service_vehicle_map>>

(* the open connection closes: the library calls on_close (line 520) *)
ConnectionCloses ==
    /\ listener.pc = "open"
    /\ listener' = [listener EXCEPT !.pc = "closed"]
    /\ UNCHANGED <<core, route, cycle, service_vehicle_map>>

(* lines 522-524 *)
OnCloseSleep ==
    /\ listener.pc = "closed"
    /\ listener' = [listener EXCEPT !.pc = "retry", !.slept = RECONNECT_DELAY]
    /\ UNCHANGED <<core, route, cycle, service_vehicle_map>>

(* lines 525-528: websocket_listener(bus) is called from inside on_close.  *)
(* While the stack has room this is one more activation.  When it has      *)
(* not, the call raises RecursionError: raised in a frame under the try    *)
(* of line 523 it is caught at line 527 and the loop sleeps again;         *)
(* raised under the library's guard around a callback it is swallowed      *)
(* there, the nested run_forever returns, line 526 breaks, and every       *)
(* enclosing on_close and run_forever returns in turn: the thread ends.    *)
Reconnect(l, outcome) ==
    IF l.depth < MaxDepth
      THEN [l EXCEPT !.depth = @ + 1, !.pc = "connect"]
    ELSE IF outcome = "caught"
      THEN [l EXCEPT !.pc = "closed"]
    ELSE [l EXCEPT !.pc = "ended", !.depth = 0, !.threads = @ - 1]

OnCloseRetry(outcome) ==
    /\ listener.pc = "retry"
    /\ listener' = Reconnect(listener, outcome)
    /\ UNCHANGED <<core, route, cycle, service_vehicle_map>>

InitWorkers ==
    /\ now = StartTime
    /\ buses = [poll |-> "B1", ws |-> "S1"]
    /\ journeys = {}
    /\ trip_points = <<>>
    /\ fleet_state = [k \in Keys |-> NoState]
    /\ last_stale_check = 0
    /\ pollPc = "poll" /\ poll = NoSample /\ staleRows = NoRows
    /\ wsPc = "wait" /\ ws = NoSample
    /\ apiPc = "idle" /\ apiRows = NoRows
    /\ fixPc = "idle" /\ fixPairs = <<>>
    /\ route = NoRoute
    /\ cycle \in {[NoCycle EXCEPT !.pc = "load", !.fleet = f] : f \in FleetLists}
    /\ listener = NoListener
    /\ service_vehicle_map = NoVehicles

TrackingLoop ==
    \/ LoopLoad
    \/ LoopWsBus
    \/ \E outcome \in {"skip", "raise"} : LoopTrackappBus(outcome)
    \/ \E outcome \in {"ok", "raise"} : LoopJanitor(outcome)
    \/ LoopSleep

Listener ==
    \/ \E outcome \in {"open", "fail"} : RunForever(outcome)
    \/ OnCloseSleep
    \/ \E outcome \in {"caught", "swallowed"} : OnCloseRetry(outcome)

NextWorkers ==
    \/ TrackingLoop
    \/ Listener
    \/ ConnectionCloses

(* both workers are threads that run when they can: a sleep returns, a     *)
(* call to the feed or the matcher returns or raises, a connection         *)
(* attempt opens or fails.  When an open connection closes is up to the    *)
(* peer.                                                                   *)
SpecWorkers ==
    /\ InitWorkers
    /\ [][NextWorkers]_vars
    /\ WF_vars(TrackingLoop)
    /\ WF_vars(Listener)

----------------------------------------------------------------------------
(* Vocabulary of the corrector's properties *)

PairsOf(pairs) == {pairs[k] : k \in DOMAIN pairs}

Flagged(J) ==
    {<<pair.keep_journey_id, pair.drop_journey_id>> :
        pair \in PairsOf(Candidates(J))}

(* b is the journey of a's vehicle that starts next after a *)
Consecutive(J, a, b) ==
    /\ a.bus_no = b.bus_no
    /\ a.start_timestamp < b.start_timestamp
    /\ ~ \E c \in J : /\ c.bus_no = a.bus_no
                      /\ a.start_timestamp < c.start_timestamp
                      /\ c.start_timestamp < b.start_timestamp

(* the three conditions of a midnight split *)
SplitSignature(a, b) ==
    /\ a.end_timestamp # NULL
    /\ (ts_to_ist(a.end_timestamp) % DAY) < 6 * HOUR
    /\ a.departure_date # b.departure_date
    /\ b.start_timestamp - a.end_timestamp < 900

(* C11: after an apply that committed, for every pair (A, B) of its list:  *)
(* B is gone from journeys, every sample that referenced B references A,   *)
(* A carries B's former end_timestamp and status, and the samples A had    *)
(* are as they were.                                                       *)
C11_MergeCorrect ==
    [][FixApply(NoFailure) =>
         \A pair \in PairsOf(fixPairs) :
            LET A == pair.keep_journey_id
                B == pair.drop_journey_id
            IN  /\ B \notin JourneyIds(journeys')
                /\ \A i \in DOMAIN trip_points :
                      trip_points[i].journey_id = B
                      => trip_points'[i] = [trip_points[i] EXCEPT !.journey_id = A]
                /\ \A b \in journeys :
                      b.journey_id = B
                      => \E a \in journeys' :
                            /\ a.journey_id = A
                            /\ a.end_timestamp = b.end_timestamp
                            /\ a.status = b.status
                /\ \A i \in DOMAIN trip_points :
                      trip_points[i].journey_id = A
                      => trip_points'[i] = trip_points[i]]_vars

(* C12: a pair of consecutive journeys of one vehicle is a candidate       *)
(* exactly when the earlier one ended at an IST hour before 06:00, the     *)
(* departure dates differ and the later one started less than 900 s after  *)
(* that end; nothing else is a candidate, and the list an apply or a       *)
(* preview works on holds only such pairs.                                 *)
C12_CandidateIff ==
    /\ \A a \in journeys : \A b \in journeys :
          /\ <<a.journey_id, b.journey_id>> \in Flagged(journeys)
                => Consecutive(journeys, a, b)
          /\ Consecutive(journeys, a, b)
                => (<<a.journey_id, b.journey_id>> \in Flagged(journeys)
                      <=> SplitSignature(a, b))
    /\ \A pair \in PairsOf(fixPairs) :
          \E a \in journeys : \E b \in journeys :
             /\ a.journey_id = pair.keep_journey_id
             /\ b.journey_id = pair.drop_journey_id
             /\ Consecutive(journeys, a, b)
             /\ SplitSignature(a, b)

(* a table with a candidate pair and with a consecutive pair that misses   *)
(* the signature by the gap alone                                          *)
C12_Witness ==
    /\ Flagged(journeys) # {}
    /\ \E a \in journeys : \E b \in journeys :
          /\ Consecutive(journeys, a, b)
          /\ a.end_timestamp # NULL
          /\ IstHour(a.end_timestamp) < MIDNIGHT_CUT_HOURS
          /\ a.departure_date # b.departure_date
          /\ b.start_timestamp - a.end_timestamp = SHORT_GAP

(* C13: GET /fix-split-journeys answers with the pairs a POST in the same  *)
(* state would merge, and neither its SELECT nor its answer changes the    *)
(* journeys, the samples or the session state.                             *)
C13_DryRunReadsOnly ==
    [][/\ (FixSelect(TRUE) \/ FixSelect(FALSE)) =>
            /\ Candidates(journeys) # <<>> => fixPairs' = Candidates(journeys)
            /\ Candidates(journeys) = <<>> => fixPc' = "idle"
       /\ (FixSelect(TRUE) \/ FixPreview) =>
            /\ UNCHANGED <<journeys, trip_points, fleet_state>>
            /\ fixPc' # "apply"]_vars

(* a dry run about to answer with a pair, while the vehicle has session    *)
(* state and samples                                                       *)
C13_Witness ==
    /\ fixPc = "preview"
    /\ fixPairs # <<>>
    /\ trip_points # <<>>
    /\ \E b \in Keys : InFleetState(fleet_state, b)

(* C14: whatever statement of an apply fails, for every pair (A, B) of     *)
(* its list the store is not left with samples of B re-pointed to A while  *)
(* A's end fields are not B's, nor with A's row changed while samples of   *)
(* B still reference B.                                                    *)
C14_ApplyAtomic ==
    [][(\E failed_at \in FailurePoints(fixPairs) \ {NoFailure} :
            FixApply(failed_at)) =>
         \A pair \in PairsOf(fixPairs) :
            LET A == pair.keep_journey_id
                B == pair.drop_journey_id
                repointed == \E i \in DOMAIN trip_points :
                                /\ trip_points[i].journey_id = B
                                /\ trip_points'[i].journey_id = A
                left      == \E i \in DOMAIN trip_points :
                                /\ trip_points[i].journey_id = B
                                /\ trip_points'[i].journey_id = B
                updated   == \A a \in journeys' : \A b \in journeys :
                                (a.journey_id = A /\ b.journey_id = B)
                                => /\ a.end_timestamp = b.end_timestamp
                                   /\ a.status = b.status
                changed   == \E a \in journeys : \E c \in journeys' :
                                /\ a.journey_id = A
                                /\ c.journey_id = A
                                /\ c # a
            IN  /\ ~(repointed /\ ~updated)
                /\ ~(changed /\ left)]_vars

(* an apply about to run on a pair whose two journeys differ in their end  *)
(* fields and both have samples                                            *)
C14_Witness ==
    /\ fixPc = "apply"
    /\ \E pair \in PairsOf(fixPairs) :
          /\ PointsOf(trip_points, pair.keep_journey_id) # {}
          /\ PointsOf(trip_points, pair.drop_journey_id) # {}
          /\ \E a \in journeys : \E b \in journeys :
                /\ a.journey_id = pair.keep_journey_id
                /\ b.journey_id = pair.drop_journey_id
                /\ a.end_timestamp # b.end_timestamp

----------------------------------------------------------------------------
(* Vocabulary of the route reconstructor's properties *)

Range(seq) == {seq[i] : i \in DOMAIN seq}

(* the sequence holds a sample from before the gap that precedes rows[i]   *)
(* and a sample from after it                                              *)
Straddles(seq, rows, i) ==
    /\ \E x \in DOMAIN seq : seq[x].timestamp <= rows[i - 1].timestamp
    /\ \E y \in DOMAIN seq : seq[y].timestamp >= rows[i].timestamp

Adjacent(seq, a, b) ==
    \E x \in 1 .. (Len(seq) - 1) : seq[x] = a /\ seq[x + 1] = b

WideGap(rows, i) == rows[i].timestamp - rows[i - 1].timestamp > 600

LastSent(r) == r.sent[Len(r.sent)].batch

RECURSIVE Concat(_)
Concat(pieces) ==
    IF pieces = <<>> THEN <<>> ELSE Head(pieces) \o Concat(Tail(pieces))

(* C15: when the filtered samples are split, two consecutive ones more     *)
(* than 600 s apart never lie in one segment, two at most 600 s apart lie  *)
(* next to each other in one segment, and no batch that is submitted       *)
(* holds samples from both sides of a gap of more than 600 s.              *)
C15_GapSegmentation ==
    [][/\ RouteSplit =>
            \A i \in 2 .. Len(route.rows) :
               IF WideGap(route.rows, i)
                 THEN \A k \in DOMAIN route'.segments :
                         ~Straddles(route'.segments[k], route.rows, i)
                 ELSE \E k \in DOMAIN route'.segments :
                         Adjacent(route'.segments[k],
                                  route.rows[i - 1], route.rows[i])
       /\ (\E outcome \in Outcomes : RouteBatch(outcome)) =>
            \A i \in 2 .. Len(route.rows) :
               WideGap(route.rows, i)
               => ~Straddles(LastSent(route'), route.rows, i)]_vars

(* the reconstruction of seven samples with 700 s between the fifth and    *)
(* the sixth has returned: two segments, each submitted on its own         *)
C15_Witness ==
    /\ route.pc = "returned"
    /\ Len(route.rows) = 7
    /\ route.rows[6].timestamp - route.rows[5].timestamp = 700
    /\ Len(route.segments) = 2
    /\ Len(route.sent) = 2
    /\ route.sent[1].batch = SubSeq(route.rows, 1, 5)
    /\ route.sent[2].batch = SubSeq(route.rows, 6, 7)

(* C16: the route is, in the order the batches were submitted (by segment  *)
(* and then by position in the segment), the decoded geometry of each      *)
(* batch that was matched and the raw (lat, lon) points, in order, of      *)
(* each batch whose call failed.                                           *)
C16_FallbackInPlace ==
    /\ \A k \in 1 .. (Len(route.sent) - 1) :
          \/ route.sent[k].seg_idx < route.sent[k + 1].seg_idx
          \/ /\ route.sent[k].seg_idx = route.sent[k + 1].seg_idx
             /\ route.sent[k].batch_start < route.sent[k + 1].batch_start
    /\ route.matched_coords =
          Concat([k \in DOMAIN route.sent |->
                    LET batch == route.sent[k].batch
                    IN  IF route.sent[k].outcome = "matched"
                          THEN LegCoords(batch)
                          ELSE [i \in DOMAIN batch |->
                                  <<batch[i].lat, batch[i].lon>>]])

(* a full batch whose call raised lies between two matched batches        *)
C16_Witness ==
    /\ route.pc = "returned"
    /\ \E k \in 2 .. (Len(route.sent) - 1) :
          /\ route.sent[k - 1].outcome = "matched"
          /\ route.sent[k].outcome = "exception"
          /\ route.sent[k + 1].outcome = "matched"
          /\ Len(route.sent[k].batch) = BATCH

(* C17: a submitted batch has at most 100 points; two batches submitted    *)
(* one after the other from the same segment share exactly one point, the  *)
(* last of the first and the first of the second; and every point of a     *)
(* segment whose batches are done is in a submitted batch.                 *)
C17_Batching ==
    /\ \A k \in DOMAIN route.sent : Len(route.sent[k].batch) <= 100
    /\ \A k \in 1 .. (Len(route.sent) - 1) :
          route.sent[k].seg_idx = route.sent[k + 1].seg_idx
          => LET first  == route.sent[k].batch
                 second == route.sent[k + 1].batch
             IN  /\ first[Len(first)] = second[1]
                 /\ Range(first) \cap Range(second) = {second[1]}
    /\ \A s \in DOMAIN route.segments :
          (route.pc = "returned" \/ s < route.seg_idx)
          => Range(route.segments[s]) \subseteq
                UNION {Range(route.sent[k].batch) :
                         k \in {m \in DOMAIN route.sent :
                                  route.sent[m].seg_idx = s}}

(* a segment of 101 points went out as batches of 100 and 2, and a         *)
(* segment of exactly 100 points as one batch                              *)
C17_Witness ==
    /\ route.pc = "returned"
    /\ Len(route.segments) = 2
    /\ Len(route.segments[1]) = BATCH + 1
    /\ Len(route.segments[2]) = BATCH
    /\ Len(route.sent) = 3
    /\ Len(route.sent[1].batch) = BATCH
    /\ Len(route.sent[2].batch) = 2
    /\ Len(route.sent[3].batch) = BATCH

----------------------------------------------------------------------------
(* Properties of the workers' control flow *)

Polled(fleet) == {fleet[i] : i \in DOMAIN fleet} \cap TrackappBuses

(* C18: when the for loop of a polling cycle is over and the call or the   *)
(* processing of one vehicle has raised in it, every other polled vehicle  *)
(* of the fleet list has been processed in that cycle.                     *)
C18_FailureIsolation ==
    (cycle.pc = "janitor" /\ cycle.failed # NoBus)
    => \A b \in Polled(cycle.fleet) : b \in cycle.seen \/ b = cycle.failed

(* C19: the tracking loop is never terminated: after an error of the       *)
(* feed, of the store or of the janitor it goes on to the next cycle.      *)
C19_NeverTerminates == cycle.pc # "terminated"

(* C20: at most one listener thread lives; a reconnect is attempted only   *)
(* after the delay of 5 s; and whenever the connection is closed or an     *)
(* attempt has failed, a new connection attempt follows.                   *)
C20_Reconnect ==
    /\ [](listener.threads <= 1)
    /\ [](listener.pc = "retry" => listener.slept = RECONNECT_DELAY)
    /\ [](listener.pc = "closed" => <>(listener.pc = "connect"))

----------------------------------------------------------------------------
(* The process after a restart: the store holds what the previous process  *)
(* wrote, an active journey of the fleet's bus with its samples; the       *)
(* module-level dicts are empty again (lines 54-55) and _last_stale_check  *)
(* is 0 (line 142).                                                        *)

MaxRestartPoints == 5   \* rows of trip_points up to which samples arrive

RestartStart == StartTime - LongTick

RestartJourney(bus_no) == NewJourneyRow(bus_no, RestartStart, RestartStart)

RestartStore(bus_no) ==
    [journeys |-> {RestartJourney(bus_no)},
     trip_points |-> <<PointRow(RestartJourney(bus_no).journey_id,
                                RestartStart, 0, 8)>>]

(* lines 530-536: the connection of the push-feed bus is open *)
OpenListener ==
    [ws_started |-> TRUE, threads |-> 1, depth |-> 1, pc |-> "open",
     slept |-> 0]

(* What on_message may be handed: text that is not JSON, or an object with *)
(* or without success, vehicleInfo.registrationNumber and                  *)
(* vehicleInfo.position; a position is absent, lacks latitude or longitude *)
(* (partial), or is full.                                                  *)
Messages ==
    {[parses |-> FALSE, success |-> FALSE, vehicle |-> NoVehicle,
      position |-> "absent"]}
    \cup [parses : {TRUE}, success : BOOLEAN, vehicle : {NoVehicle, "V1"},
          position : {"absent", "partial", "full"}]

(* lines 396-405: json.loads did not raise, success is truthy and the      *)
(* message names a vehicle                                                 *)
ReadsVehicle(m) == m.parses /\ m.success /\ m.vehicle # NoVehicle

(* Every message is taken for a full one *)
ReachesSampleAlways(m) == TRUE

(* lines 396-412: the handler gets as far as the sample: json.loads did    *)
(* not raise, success is truthy, position is not empty and holds both      *)
(* coordinates (a missing one raises KeyError, caught at line 517)         *)
ReachesSample(m) == m.parses /\ m.success /\ m.position = "full"

(* lines 394-445, 517-518: one message of the open connection *)
WsMessageUpTo(limit, m, t, pos) ==
    /\ wsPc = "wait"
    /\ listener.pc = "open"
    /\ buses.ws # NoBus
    /\ service_vehicle_map' =
         IF ReadsVehicle(m)
           THEN [service_vehicle_map EXCEPT ![buses.ws] = m.vehicle]
           ELSE service_vehicle_map
    /\ UNCHANGED <<route, cycle, listener>>
    /\ IF ReachesSample(m)
         THEN WsReadUpTo(limit, t, pos)
         ELSE UNCHANGED <<now, buses, journeys, trip_points, fleet_state,
                          last_stale_check, pollPc, poll, staleRows, wsPc,
                          ws, apiPc, apiRows, fixPc, fixPairs>>

WsMessage(m, t, pos) == WsMessageUpTo(MaxRestartPoints, m, t, pos)

InitRestart ==
    /\ now = StartTime
    /\ buses \in {[poll |-> "B1", ws |-> NoBus], [poll |-> NoBus, ws |-> "S1"]}
    /\ LET bus == IF buses.poll # NoBus THEN buses.poll ELSE buses.ws
       IN  /\ journeys = RestartStore(bus).journeys
           /\ trip_points = RestartStore(bus).trip_points
    /\ fleet_state = [k \in Keys |-> NoState]
    /\ last_stale_check = 0
    /\ pollPc = "poll" /\ poll = NoSample /\ staleRows = NoRows
    /\ wsPc = "wait" /\ ws = NoSample
    /\ apiPc = "idle" /\ apiRows = NoRows
    /\ fixPc = "idle" /\ fixPairs = <<>>
    /\ route = NoRoute /\ cycle = NoCycle
    /\ listener = IF buses.ws # NoBus THEN OpenListener ELSE NoListener
    /\ service_vehicle_map = NoVehicles

(* lines 197-374: the steps of the tracking-loop thread *)
TrackingLoopUpTo(limit) ==
    \/ \E t \in Later, pos \in Positions, speed \in Speeds :
          PollReadUpTo(limit, t, pos, speed)
    \/ \E t \in Later : PollSkip(t)
    \/ PollIdle
    \/ \E t \in Later : PollCreate(t)
    \/ PollInsert
    \/ \E t \in Later : AutoSelect(t)
    \/ AutoEnd

(* line 414 reads the clock and lines 411-412 the position only for a      *)
(* message that gets as far                                                *)
ClockOf(m) == IF ReachesSample(m) THEN Later ELSE {now}

PositionsOf(m) == IF ReachesSample(m) THEN Positions ELSE {0}

(* lines 394-518: the steps of the listener's handler *)
HandlerUpTo(limit) ==
    \/ \E m \in Messages :
          \E t \in ClockOf(m), pos \in PositionsOf(m) :
             WsMessageUpTo(limit, m, t, pos)
    \/ WsGpsEnd
    \/ \E t \in Later : WsGpsCreate(t)
    \/ WsRefetch
    \/ \E t \in Later : WsCreate(t)
    \/ WsIdle
    \/ WsInsert

NextRestart ==
    TrackingLoopUpTo(MaxRestartPoints) \/ HandlerUpTo(MaxRestartPoints)

SpecRestart == InitRestart /\ [][NextRestart]_vars

(* The same process followed for fewer samples, with the tracking-loop     *)
(* thread scheduled again and again: the while True of line 201 with its   *)
(* sleep (line 374) keeps taking steps as long as it has one to take.      *)
MaxSweepPoints == 3

NextSweep ==
    TrackingLoopUpTo(MaxSweepPoints) \/ HandlerUpTo(MaxSweepPoints)

SpecSweep ==
    /\ InitRestart
    /\ [][NextSweep]_vars
    /\ WF_vars(TrackingLoopUpTo(MaxSweepPoints))

----------------------------------------------------------------------------
(* Properties of the store across the paths *)

(* the handler of the websocket feed is between its read of the session    *)
(* dict and its last write to it                                           *)
WsHandlerAtWork == wsPc # "wait"

(* C22: the in-loop janitor writes the session state of a vehicle only     *)
(* while no websocket handler is at work on that vehicle's state.          *)
C22_OneWriterAtATime ==
    [][(/\ AutoEnd
        /\ buses.ws # NoBus
        /\ fleet_state'[buses.ws] # fleet_state[buses.ws])
       => ~WsHandlerAtWork]_vars

(* C23: the id of every journey is the one generated from its bus_no and   *)
(* the start_timestamp of its row.                                         *)
C23_IdFromStart ==
    \A j \in journeys :
       j.journey_id = generate_journey_id(j.bus_no, j.start_timestamp)

(* C28: a journey that the idle rule of the tracking loop ends has been    *)
(* active for at least 3600 s.                                             *)
C28_IdleEndAfterAnHour ==
    [][(PollIdle /\ poll'.idle_ended) =>
         \A j \in journeys :
            j.journey_id = poll.active_journey
            => poll.timestamp - j.start_timestamp >= 3600]_vars

(* the first pair hands its dropped journey to the second as the one to    *)
(* keep                                                                    *)
ChainedAt(pairs, k) ==
    /\ k + 1 \in DOMAIN pairs
    /\ pairs[k].drop_journey_id = pairs[k + 1].keep_journey_id

(* C29: an apply on a list with overlapping pairs (A, B), (B, C) leaves A  *)
(* with the samples of A, B and C and with C's former end_timestamp and    *)
(* status, and leaves no sample that references a journey not in the       *)
(* table.                                                                  *)
C29_ChainedMerge ==
    [][FixApply(NoFailure) =>
         \A k \in DOMAIN fixPairs :
            ChainedAt(fixPairs, k)
            => LET A == fixPairs[k].keep_journey_id
                   B == fixPairs[k].drop_journey_id
                   C == fixPairs[k + 1].drop_journey_id
               IN  /\ \A i \in DOMAIN trip_points :
                         trip_points[i].journey_id \in {A, B, C}
                         => trip_points'[i].journey_id = A
                   /\ \A c \in journeys :
                         c.journey_id = C
                         => \E a \in journeys' :
                               /\ a.journey_id = A
                               /\ a.end_timestamp = c.end_timestamp
                               /\ a.status = c.status
                   /\ \A i \in DOMAIN trip_points' :
                         trip_points'[i].journey_id \in JourneyIds(journeys')]_vars

(* C30: a journey that is ended keeps its end_timestamp and status through *)
(* every step of the tracking loop, the listeners and the janitors.        *)
C30_EndedOnce ==
    [][(\E j \in journeys : j.status = "ended" /\ j \notin journeys')
       => fixPc = "apply"]_vars

----------------------------------------------------------------------------
(* Properties of the restarted process *)

(* the messages the handler is to ignore *)
Malformed ==
    {m \in Messages : ~m.parses \/ ~m.success \/ m.position # "full"}

(* C21: a message that does not parse, has a false success flag or lacks   *)
(* the position (or one of its coordinates) leaves the journeys, the       *)
(* samples and the session state as they were, and the connection stays    *)
(* open with the handler ready for the next message.                       *)
C21_MalformedIgnored ==
    [][(\E m \in Malformed :
           \E t \in ClockOf(m), pos \in PositionsOf(m) : WsMessage(m, t, pos))
       => /\ UNCHANGED <<journeys, trip_points, fleet_state>>
          /\ listener'.pc = "open"
          /\ wsPc' = "wait"]_vars

(* a partial message has been handled (it named the vehicle) while the bus *)
(* has a session state and samples of its own, and the handler is at work  *)
(* on a later message                                                      *)
C21_Witness ==
    /\ buses.ws # NoBus
    /\ service_vehicle_map[buses.ws] # NoVehicle
    /\ InFleetState(fleet_state, buses.ws)
    /\ Len(trip_points) > 1
    /\ wsPc = "insert"

TheRestartJourney ==
    RestartJourney(IF buses.poll # NoBus THEN buses.poll ELSE buses.ws)

FirstSample == Len(trip_points) = Len(RestartStore("B1").trip_points)

SampleSinceRestart == Len(trip_points) > Len(RestartStore("B1").trip_points)

(* C26: the first sample after the restart: the handler ends no journey    *)
(* and creates none on its way to the insert, and the insert appends the   *)
(* sample to the journey the store held, which the handler leaves active.  *)
C26_RestartContinuity ==
    [][/\ (FirstSample /\ TheRestartJourney \in journeys
             /\ (PollIdle \/ WsIdle \/ WsRefetch \/ WsGpsEnd
                   \/ \E t \in Later : PollCreate(t) \/ WsCreate(t)
                                         \/ WsGpsCreate(t)))
          => journeys' = journeys
       /\ (FirstSample /\ TheRestartJourney \in journeys
             /\ (PollInsert \/ WsInsert))
          => /\ journeys' = journeys
             /\ trip_points'[Len(trip_points')].journey_id
                  = TheRestartJourney.journey_id]_vars

(* the first sample after the restart is in the store, more than an hour   *)
(* after the journey's last one                                            *)
C26_Witness ==
    /\ Len(trip_points) = Len(RestartStore("B1").trip_points) + 1
    /\ trip_points[Len(trip_points)].timestamp
         >= RestartStart + END_CONFIRM_THRESHOLD
    /\ trip_points[Len(trip_points)].journey_id = TheRestartJourney.journey_id
    /\ journeys = {TheRestartJourney}
    /\ pollPc = "stale" \/ wsPc = "wait"

(* C27: every stored sample has a journey_id, and the journey is in the    *)
(* journeys table.                                                         *)
C27_SamplesReferToJourneys ==
    \A i \in DOMAIN trip_points :
       /\ trip_points[i].journey_id # NoId
       /\ trip_points[i].journey_id \in JourneyIds(journeys)

(* C24: a sample that finds an active journey, lies within the idle radius *)
(* of the anchor and arrives 3600 s or more after the anchor was stamped   *)
(* ends the journey, on the polling path and on the push path.             *)
C24_IdleEndOnEveryPath ==
    [][/\ (/\ PollIdle
           /\ poll.active_journey # NoId
           /\ fleet_state[buses.poll].idle_start_time \notin {NULL, Absent}
           /\ fleet_state[buses.poll].idle_start_location \notin {NULL, Absent}
           /\ haversine(fleet_state[buses.poll].idle_start_location, poll.pos)
                <= IDLE_ANCHOR_RADIUS
           /\ poll.timestamp - fleet_state[buses.poll].idle_start_time
                >= END_CONFIRM_THRESHOLD)
          => poll'.idle_ended
       /\ (/\ WsIdle
           /\ ws.active_journey # NoId
           /\ fleet_state[buses.ws].idle_start_time \notin {NULL, Absent}
           /\ fleet_state[buses.ws].idle_location \notin {NULL, Absent}
           /\ haversine(fleet_state[buses.ws].idle_location, ws.pos)
                <= IDLE_ANCHOR_RADIUS
           /\ ws.timestamp - fleet_state[buses.ws].idle_start_time
                >= END_CONFIRM_THRESHOLD)
          => ws'.idle_ended]_vars

(* C25: the journey the store held at the restart, when its vehicle        *)
(* delivers no further sample, is ended by the janitor of the tracking     *)
(* loop.                                                                   *)
C25_AbandonedClosed ==
    (TheRestartJourney \in journeys)
       ~> (\/ SampleSinceRestart
           \/ \E j \in journeys :
                 /\ j.journey_id = TheRestartJourney.journey_id
                 /\ j.status = "ended")

(* the janitor has ended the journey and no sample has arrived *)
C25_Witness ==
    /\ ~SampleSinceRestart
    /\ pollPc = "poll"
    /\ last_stale_check >= RestartStart + STALE_WINDOW
    /\ \E j \in journeys :
          /\ j.journey_id = TheRestartJourney.journey_id
          /\ j.status = "ended"
          /\ j.end_timestamp = RestartStart


====
